---------------------------- MODULE Spec2Model ----------------------------
(***************************************************************************)
(* Prediction derivation engine (predictionEngine.ts) and the per-match    *)
(* orchestrator generatePredictionsForMatch (predictionService) of the     *)
(* NBA predictor backend.                                                   *)
(*                                                                         *)
(* SpecEngine drives the pure engine over bounded game windows.            *)
(* Spec has one caller invoke generatePredictionsForMatch in succession,   *)
(* SpecConc two callers at the same time; in both the database may fail    *)
(* statements.  The database is PostgreSQL (config/database.ts) at its     *)
(* default isolation level, READ COMMITTED.                                *)
(***************************************************************************)
EXTENDS Integers, Sequences, FiniteSets, TLC

VARIABLES
    games,          \* input.last15Games handed to generatePrediction
    imputedGames,   \* the array imputeStats returned during the call
    out,            \* outcome of the generatePrediction call
    epc,            \* "build": window under construction, "done": call made
    player_game_stats, \* the game rows of every player
    predictions,    \* predictions: committed rows by <<player_id, match_id>>
    limit,          \* how many invocations each caller makes
    arg,            \* matchId each caller passes
    runs,           \* invocations each caller has started
    pc,             \* where each caller's invocation stands
    tx,             \* state of its transaction: "none", "open", "failed"
    writes,         \* its uncommitted inserts and updates, in order
    roster,         \* playersResult.rows
    idx,            \* position of the for-loop in roster
    prediction,     \* generatePrediction's value for the current player
    existing,       \* existingPred.rows.length > 0
    results,        \* the local array predictions
    outcome,        \* "none", "returned" or "threw"
    injected,       \* statements of the invocation the database failed
    caught,         \* players whose iteration ended in the catch block
    nfaults,        \* database failures so far
    client,         \* each caller's pooled client: held, times released, transaction ends
    request,        \* the last GET /api/predictions/:matchId
    response,       \* what the route answered to it
    script,         \* the maintenance script run: "schedule" or "fix"
    upcoming,       \* ids of the scheduled matches within the next 36 hours
    spc,            \* where the script stands
    todo,           \* matches its loop has still to process
    found,          \* rows its matches query gave, NULL before and on failure
    tally,          \* its counters
    sout,           \* how its try block, and in the end the script, completed
    pool            \* the shared pool: ended, and how often end() was called

engineVars == <<games, imputedGames, out, epc>>

dbVars == <<player_game_stats, predictions>>

callVars == <<limit, arg, runs, pc, tx, writes, roster, idx, prediction,
              existing, results, outcome, injected, caught, nfaults, client>>

apiVars == <<request, response>>

scriptVars == <<script, upcoming, spc, todo, found, tally, sout, pool>>

vars == <<engineVars, dbVars, callVars, apiVars, scriptVars>>

-----------------------------------------------------------------------------
(* Configuration, types/index.ts *)

THRESHOLDS ==
    [points   |-> <<30, 25, 20, 15, 10>>,
     rebounds |-> <<12, 10, 8, 6, 4>>,
     assists  |-> <<10, 8, 6, 4, 2>>]

QUALIFYING_COUNT == 14

\* validateGames accepts this length only
WINDOW_SIZE == 15

\* `null` of `number | null`: no stat and no threshold is negative
NULL == -1

-----------------------------------------------------------------------------
(* Bounds of the model *)

\* longest window handed to the engine (one more than WINDOW_SIZE at least)
MaxLen == 16

\* invocations one caller makes in succession
MaxRuns == 2

\* statements the database fails on its own account
MaxFaults == 1

-----------------------------------------------------------------------------
(* Array helpers *)

RECURSIVE SumSeq(_)
SumSeq(s) == IF s = <<>> THEN 0 ELSE Head(s) + SumSeq(Tail(s))

\* gs.map(g => g.<stat>)
StatArray(gs, stat) == [i \in 1..Len(gs) |-> gs[i][stat]]

Played(g) == g.minutes > 0

\* Math.round(sum / n) for n > 0: the nearest integer, a tie going up
MathRoundLow(sum, n) == sum \div n

MathRound(sum, n) == (2 * sum + n) \div (2 * n)

-----------------------------------------------------------------------------
(* predictionEngine.ts *)

validateGamesAtMost(gs) == Len(gs) <= WINDOW_SIZE

\* TRUE when validateGames returns, FALSE when it throws
validateGames(gs) == Len(gs) = WINDOW_SIZE

\* the flag left out of the replaced record
ImputedGameNoFlag(game, avgPoints, avgRebounds, avgAssists) ==
    [game EXCEPT !.points = avgPoints,
                 !.rebounds = avgRebounds,
                 !.assists = avgAssists]

ImputedGame(game, avgPoints, avgRebounds, avgAssists) ==
    [game EXCEPT !.points = avgPoints,
                 !.rebounds = avgRebounds,
                 !.assists = avgAssists,
                 !.isImputed = TRUE]

imputeStatsZeroFill(gs) ==
    LET playedGames == SelectSeq(gs, Played)
    IN  IF Len(playedGames) = 0
        THEN [i \in 1..Len(gs) |-> ImputedGame(gs[i], 0, 0, 0)]
        ELSE LET n == Len(playedGames)
                 avgPoints   == MathRound(SumSeq(StatArray(playedGames, "points")), n)
                 avgRebounds == MathRound(SumSeq(StatArray(playedGames, "rebounds")), n)
                 avgAssists  == MathRound(SumSeq(StatArray(playedGames, "assists")), n)
             IN  [i \in 1..Len(gs) |->
                    IF gs[i].minutes = 0
                    THEN ImputedGame(gs[i], avgPoints, avgRebounds, avgAssists)
                    ELSE gs[i]]

\* the imputation left out: a game not played keeps the stats of its row
imputeStatsNone(gs) == gs

\* the sums divided by the length of the window, not by the games played
imputeStatsOverAll(gs) ==
    LET playedGames == SelectSeq(gs, Played)
    IN  IF Len(playedGames) = 0
        THEN gs
        ELSE LET n == Len(gs)
                 avgPoints   == MathRound(SumSeq(StatArray(playedGames, "points")), n)
                 avgRebounds == MathRound(SumSeq(StatArray(playedGames, "rebounds")), n)
                 avgAssists  == MathRound(SumSeq(StatArray(playedGames, "assists")), n)
             IN  [i \in 1..Len(gs) |->
                    IF gs[i].minutes = 0
                    THEN ImputedGame(gs[i], avgPoints, avgRebounds, avgAssists)
                    ELSE gs[i]]

\* the points average taken from the rebounds
imputeStatsCrossed(gs) ==
    LET playedGames == SelectSeq(gs, Played)
    IN  IF Len(playedGames) = 0
        THEN gs
        ELSE LET n == Len(playedGames)
                 avgPoints   == MathRound(SumSeq(StatArray(playedGames, "rebounds")), n)
                 avgRebounds == MathRound(SumSeq(StatArray(playedGames, "rebounds")), n)
                 avgAssists  == MathRound(SumSeq(StatArray(playedGames, "assists")), n)
             IN  [i \in 1..Len(gs) |->
                    IF gs[i].minutes = 0
                    THEN ImputedGame(gs[i], avgPoints, avgRebounds, avgAssists)
                    ELSE gs[i]]

imputeStats(gs) ==
    LET playedGames == SelectSeq(gs, Played)
    IN  IF Len(playedGames) = 0
        THEN gs
        ELSE LET n == Len(playedGames)
                 avgPoints   == MathRound(SumSeq(StatArray(playedGames, "points")), n)
                 avgRebounds == MathRound(SumSeq(StatArray(playedGames, "rebounds")), n)
                 avgAssists  == MathRound(SumSeq(StatArray(playedGames, "assists")), n)
             IN  [i \in 1..Len(gs) |->
                    IF gs[i].minutes = 0
                    THEN ImputedGame(gs[i], avgPoints, avgRebounds, avgAssists)
                    ELSE gs[i]]

\* the comparison made strict: a value equal to the candidate is not counted
CountAbove(stats, threshold) ==
    Cardinality({i \in 1..Len(stats) : stats[i] > threshold})

\* stats.filter(stat => stat >= threshold).length
CountAtLeast(stats, threshold) ==
    Cardinality({i \in 1..Len(stats) : stats[i] >= threshold})

\* the for-loop of evaluateThreshold from candidate i on, qualifying count q
RECURSIVE ScanFrom(_, _, _, _)
ScanFrom(stats, thresholds, q, i) ==
    IF i > Len(thresholds) THEN NULL
    ELSE IF CountAtLeast(stats, thresholds[i]) >= q THEN thresholds[i]
    ELSE ScanFrom(stats, thresholds, q, i + 1)

RECURSIVE ScanFromExact(_, _, _, _)
ScanFromExact(stats, thresholds, q, i) ==
    IF i > Len(thresholds) THEN NULL
    ELSE IF CountAtLeast(stats, thresholds[i]) = q THEN thresholds[i]
    ELSE ScanFromExact(stats, thresholds, q, i + 1)

RECURSIVE ScanFromLast(_, _, _, _)
ScanFromLast(stats, thresholds, q, i) ==
    IF i > Len(thresholds) THEN NULL
    ELSE LET rest == ScanFromLast(stats, thresholds, q, i + 1)
         IN  IF rest # NULL THEN rest
             ELSE IF CountAtLeast(stats, thresholds[i]) >= q THEN thresholds[i]
             ELSE NULL

evaluateWithExact(stats, thresholds, q) == ScanFromExact(stats, thresholds, q, 1)

\* evaluateThreshold with its qualifying count as a parameter
evaluateWith(stats, thresholds, q) == ScanFrom(stats, thresholds, q, 1)

evaluateThresholdLast(stats, thresholds) ==
    ScanFromLast(stats, thresholds, QUALIFYING_COUNT, 1)

evaluateThresholdFloor(stats, thresholds) ==
    LET r == evaluateWith(stats, thresholds, QUALIFYING_COUNT)
    IN  IF r = NULL THEN thresholds[Len(thresholds)] ELSE r

evaluateThreshold(stats, thresholds) ==
    evaluateWith(stats, thresholds, QUALIFYING_COUNT)

\* the points evaluated against the rebounds ladder
PredictionOutputCrossed(input, imputed) ==
    [playerId          |-> input.playerId,
     matchId           |-> input.matchId,
     pointsThreshold   |-> evaluateThreshold(StatArray(imputed, "points"), THRESHOLDS.rebounds),
     reboundsThreshold |-> evaluateThreshold(StatArray(imputed, "rebounds"), THRESHOLDS.rebounds),
     assistsThreshold  |-> evaluateThreshold(StatArray(imputed, "assists"), THRESHOLDS.assists),
     gamesAnalyzed     |-> 15]

\* gamesAnalyzed taken from the number of games played
PredictionOutputPlayed(input, imputed) ==
    [playerId          |-> input.playerId,
     matchId           |-> input.matchId,
     pointsThreshold   |-> evaluateThreshold(StatArray(imputed, "points"), THRESHOLDS.points),
     reboundsThreshold |-> evaluateThreshold(StatArray(imputed, "rebounds"), THRESHOLDS.rebounds),
     assistsThreshold  |-> evaluateThreshold(StatArray(imputed, "assists"), THRESHOLDS.assists),
     gamesAnalyzed     |-> Len(SelectSeq(input.last15Games, Played))]

\* the value generatePrediction returns once validateGames has passed
PredictionOutput(input, imputed) ==
    [playerId          |-> input.playerId,
     matchId           |-> input.matchId,
     pointsThreshold   |-> evaluateThreshold(StatArray(imputed, "points"), THRESHOLDS.points),
     reboundsThreshold |-> evaluateThreshold(StatArray(imputed, "rebounds"), THRESHOLDS.rebounds),
     assistsThreshold  |-> evaluateThreshold(StatArray(imputed, "assists"), THRESHOLDS.assists),
     gamesAnalyzed     |-> 15]

\* generatePrediction: kind "threw" (validation error) or "returned" (value)
generatePrediction(input) ==
    IF ~validateGames(input.last15Games)
    THEN [kind |-> "threw", imputed |-> <<>>, value |-> <<>>]
    ELSE LET imputed == imputeStats(input.last15Games)
         IN  [kind |-> "returned", imputed |-> imputed,
              value |-> PredictionOutput(input, imputed)]

-----------------------------------------------------------------------------
(* Game windows handed to the engine.  The engine reads a window through   *)
(* filter / reduce / map only, so windows are enumerated up to the order   *)
(* of their games: kinds ascending or descending along the window.         *)

GameKinds ==
    <<[minutes |-> 0,  points |-> 0,  rebounds |-> 0,  assists |-> 0,  isImputed |-> FALSE, opponent |-> "BOS"],
      [minutes |-> 0,  points |-> 12, rebounds |-> 5,  assists |-> 3,  isImputed |-> FALSE, opponent |-> "NYK"],
      [minutes |-> 18, points |-> 8,  rebounds |-> 3,  assists |-> 1,  isImputed |-> TRUE,  opponent |-> "MIA"],
      [minutes |-> 30, points |-> 24, rebounds |-> 4,  assists |-> 2,  isImputed |-> FALSE, opponent |-> "LAL"],
      [minutes |-> 32, points |-> 25, rebounds |-> 11, assists |-> 7,  isImputed |-> FALSE, opponent |-> "GSW"],
      [minutes |-> 36, points |-> 31, rebounds |-> 12, assists |-> 10, isImputed |-> FALSE, opponent |-> "DEN"]>>

Kinds == 1..Len(GameKinds)

\* the game of kind k at position pos of a window, newest first
MkGame(k, pos) ==
    [date      |-> 100 - pos,
     opponent  |-> GameKinds[k].opponent,
     minutes   |-> GameKinds[k].minutes,
     points    |-> GameKinds[k].points,
     rebounds  |-> GameKinds[k].rebounds,
     assists   |-> GameKinds[k].assists,
     isImputed |-> GameKinds[k].isImputed]

KindOf(g) == CHOOSE k \in Kinds : GameKinds[k].opponent = g.opponent

NoOutput == [kind |-> "none", imputed |-> <<>>, value |-> <<>>]

EngineInit ==
    /\ games = <<>>
    /\ imputedGames = <<>>
    /\ out = NoOutput
    /\ epc = "build"

\* kinds ascending along the window, or descending
Ordered(w) ==
    \/ \A i, j \in 1..Len(w) : i < j => KindOf(w[i]) <= KindOf(w[j])
    \/ \A i, j \in 1..Len(w) : i < j => KindOf(w[i]) >= KindOf(w[j])

\* the caller adds one more game row to the window
AddGame(k) ==
    /\ epc = "build"
    /\ Len(games) < MaxLen
    /\ Ordered(Append(games, MkGame(k, Len(games) + 1)))
    /\ games' = Append(games, MkGame(k, Len(games) + 1))
    /\ UNCHANGED <<imputedGames, out, epc, dbVars, callVars, apiVars, scriptVars>>

\* the points of 14 played games, newest first
ScenarioPoints == <<28, 26, 31, 25, 27, 29, 32, 26, 24, 30, 28, 27, 26, 25>>

\* the window of these 14 games and one game not played, at position at
ScenarioWindow(at) ==
    [pos \in 1..15 |->
        IF pos = at
        THEN [date |-> 100 - pos, opponent |-> "PHX", minutes |-> 0,
              points |-> 0, rebounds |-> 0, assists |-> 0, isImputed |-> FALSE]
        ELSE [date |-> 100 - pos, opponent |-> "PHX", minutes |-> 34,
              points |-> ScenarioPoints[IF pos < at THEN pos ELSE pos - 1],
              rebounds |-> 5, assists |-> 3, isImputed |-> FALSE]]

\* the caller hands in the window of the 14 played games and one missed game
LoadScenario(at) ==
    /\ epc = "build"
    /\ games = <<>>
    /\ games' = ScenarioWindow(at)
    /\ epc' = "loaded"
    /\ UNCHANGED <<imputedGames, out, dbVars, callVars, apiVars, scriptVars>>

\* a window of one played game, with 30 points, at position at and 14 games
\* not played
LonePlayedWindow(at) ==
    [pos \in 1..15 |->
        IF pos = at
        THEN [date |-> 100 - pos, opponent |-> "PHX", minutes |-> 28,
              points |-> 30, rebounds |-> 7, assists |-> 5, isImputed |-> FALSE]
        ELSE [date |-> 100 - pos, opponent |-> "PHX", minutes |-> 0,
              points |-> 0, rebounds |-> 0, assists |-> 0, isImputed |-> FALSE]]

\* the caller hands in the window of the one played game
LoadLonePlayed(at) ==
    /\ epc = "build"
    /\ games = <<>>
    /\ games' = LonePlayedWindow(at)
    /\ epc' = "loaded"
    /\ UNCHANGED <<imputedGames, out, dbVars, callVars, apiVars, scriptVars>>

\* generatePrediction({playerId, matchId, last15Games: games})
Generate ==
    /\ epc \in {"build", "loaded"}
    /\ LET r == generatePrediction([playerId |-> 1, matchId |-> 1, last15Games |-> games])
       IN  /\ out' = [kind |-> r.kind, value |-> r.value]
           /\ imputedGames' = r.imputed
    /\ epc' = "done"
    /\ UNCHANGED <<games, dbVars, callVars, apiVars, scriptVars>>

-----------------------------------------------------------------------------
(* The database behind predictionService: the rows generatePredictionsFor- *)
(* Match reads (matches, players, player_game_stats) and the predictions   *)
(* table it writes, inside one PostgreSQL transaction per invocation.      *)

Players == {1, 2, 3}

\* callers that may have an invocation in progress
Procs == {1, 2}

\* players.current_team_id of every player row, by player id
PlayersTable == [p \in Players |-> IF p = 3 THEN "BOS" ELSE "LAL"]

\* matches rows by id: match 1 has players on both sides, match 2 has none
MatchesTable ==
    [m \in {1, 2} |-> IF m = 1 THEN [home_team_id |-> "LAL", away_team_id |-> "BOS"]
                               ELSE [home_team_id |-> "NYK", away_team_id |-> "MIA"]]

\* match ids a caller passes; 3 is no row of matches
MatchArgs == {1, 2, 3}

\* a player's player_game_stats rows, row j of kinds being the j-th newest
GameRows(kinds) == {MkGame(kinds[j], j) : j \in 1..Len(kinds)}

\* 14 played games and one game not played: eligible
HistFull == GameRows([j \in 1..15 |-> IF j = 3 THEN 1 ELSE 5])

\* 14 rows only: not eligible
HistShort == GameRows([j \in 1..14 |-> 6])

\* 17 rows, the two oldest weaker than the 15 newest: eligible
HistLong == GameRows([j \in 1..17 |-> IF j <= 15 THEN 6 ELSE 3])

\* 15 rows, no game played: eligible, nothing to impute from
HistBench == GameRows([j \in 1..15 |-> 1])

\* none: the player has no game row
HistNone == {}

Histories == {HistFull, HistShort, HistLong, HistBench}

\* rows sorted by game_date DESC
RowsByDateDesc(rows) ==
    [j \in 1..Cardinality(rows) |->
        CHOOSE r \in rows : Cardinality({x \in rows : x.date > r.date}) = j - 1]

FirstRows(s, n) == SubSeq(s, 1, IF Len(s) < n THEN Len(s) ELSE n)

\* the LIMIT one too high
SelectLastGames16(table, player) == FirstRows(RowsByDateDesc(table[player]), 16)

\* SELECT ... FROM player_game_stats WHERE player_id ORDER BY game_date DESC LIMIT 15
SelectLastGames(table, player) == FirstRows(RowsByDateDesc(table[player]), 15)

\* SELECT ... FROM matches WHERE id = matchId
SelectMatchRows(matchId) ==
    IF matchId \in DOMAIN MatchesTable THEN <<MatchesTable[matchId]>> ELSE <<>>

RECURSIVE AscSeq(_)
AscSeq(S) ==
    IF S = {} THEN <<>>
    ELSE LET m == CHOOSE x \in S : \A y \in S : x <= y
         IN  <<m>> \o AscSeq(S \ {m})

\* DISTINCT lost: a player comes once per row the join gives, here twice
SelectRosterTwice(match) ==
    AscSeq({p \in Players : PlayersTable[p] \in {match.home_team_id, match.away_team_id}})
      \o AscSeq({p \in Players : PlayersTable[p] \in {match.home_team_id, match.away_team_id}})

\* the team condition lost: the players of every team
SelectRosterAnyTeam(match) == AscSeq(Players)

\* SELECT DISTINCT p.id ... WHERE t.id = home OR t.id = away.  The query has
\* no ORDER BY; every invocation gets the rows in the same order (by id),
\* and Init varies which player has which game rows.
SelectRoster(match) ==
    AscSeq({p \in Players : PlayersTable[p] \in {match.home_team_id, match.away_team_id}})

Keys == Players \X DOMAIN MatchesTable

\* the columns an INSERT gives a predictions row
InsertedRow(pred) ==
    [points_threshold   |-> pred.pointsThreshold,
     rebounds_threshold |-> pred.reboundsThreshold,
     assists_threshold  |-> pred.assistsThreshold,
     games_analyzed     |-> pred.gamesAnalyzed]

\* the WHERE of the UPDATE matches no row: the row stays as it was
UpdatedRowStale(row, pred) == row

UpdatedRowSwapped(row, pred) ==
    [row EXCEPT !.points_threshold   = pred.reboundsThreshold,
                !.rebounds_threshold = pred.pointsThreshold,
                !.assists_threshold  = pred.assistsThreshold,
                !.games_analyzed     = pred.gamesAnalyzed]

\* the columns an UPDATE sets in a predictions row
UpdatedRow(row, pred) ==
    [row EXCEPT !.points_threshold   = pred.pointsThreshold,
                !.rebounds_threshold = pred.reboundsThreshold,
                !.assists_threshold  = pred.assistsThreshold,
                !.games_analyzed     = pred.gamesAnalyzed]

UniqueKeyDropped == FALSE

\* predictions carries UNIQUE (player_id, match_id)
UniqueKey == TRUE

PendingInserts(i, key) ==
    {n \in 1..Len(writes[i]) : writes[i][n].op = "insert" /\ writes[i][n].key = key}

PendingUpdates(i, key) ==
    {n \in 1..Len(writes[i]) : writes[i][n].op = "update" /\ writes[i][n].key = key}

\* SELECT id FROM predictions WHERE player_id AND match_id, seen by caller i:
\* the committed rows and the rows its own transaction inserted
ExistingRows(i, key) == Len(predictions[key]) + Cardinality(PendingInserts(i, key))

\* the INSERT waits for another transaction that inserted the same key
InsertWaits(i, key) ==
    UniqueKey /\ \E j \in Procs \ {i} : PendingInserts(j, key) # {}

\* the INSERT is rejected with a unique violation
InsertRejected(i, key) == UniqueKey /\ ExistingRows(i, key) > 0

\* the UPDATE waits for another transaction holding the row's lock
UpdateWaits(i, key) ==
    Len(predictions[key]) > 0 /\ \E j \in Procs \ {i} : PendingUpdates(j, key) # {}

\* the update done as a delete of the old row, with nothing put back
ApplyWriteDeleting(table, w) ==
    IF w.op = "insert"
    THEN [table EXCEPT ![w.key] = Append(@, InsertedRow(w.pred))]
    ELSE [table EXCEPT ![w.key] = <<>>]

\* COMMIT: the transaction's inserts and updates reach the table
ApplyWrite(table, w) ==
    IF w.op = "insert"
    THEN [table EXCEPT ![w.key] = Append(@, InsertedRow(w.pred))]
    ELSE [table EXCEPT ![w.key] = [n \in 1..Len(@) |-> UpdatedRow(@[n], w.pred)]]

RECURSIVE ApplyWrites(_, _)
ApplyWrites(table, ws) ==
    IF ws = <<>> THEN table ELSE ApplyWrites(ApplyWrite(table, Head(ws)), Tail(ws))

-----------------------------------------------------------------------------
(* predictionService: generatePredictionsForMatch, one action per await   *)
(* with the synchronous code that follows it.                              *)

NoPrediction == [playerId |-> 0, matchId |-> 0, pointsThreshold |-> NULL,
                 reboundsThreshold |-> NULL, assistsThreshold |-> NULL,
                 gamesAnalyzed |-> 0]

\* the player of the current iteration
CurrentPlayer(i) == roster[i][idx[i]]

CurrentKey(i) == <<CurrentPlayer(i), arg[i]>>

\* the entry predictions.push(...) appends (playerName left out)
PlayerPrediction(player, pred) ==
    [playerId      |-> player,
     team          |-> PlayersTable[player],
     points        |-> pred.pointsThreshold,
     rebounds      |-> pred.reboundsThreshold,
     assists       |-> pred.assistsThreshold,
     gamesAnalyzed |-> pred.gamesAnalyzed]

\* the database fails the statement (err), which the fault budget allows
MayFail(i, err) == err => (nfaults < MaxFaults /\ tx[i] = "open")

\* a statement sent in a failed transaction is refused
Refused(i) == tx[i] = "failed"

Book(i, err, stmt, player) ==
    /\ injected' = [injected EXCEPT ![i] = IF err THEN @ \cup {<<stmt, player>>} ELSE @]
    /\ nfaults' = IF err THEN nfaults + 1 ELSE nfaults

\* end of one iteration of the for-loop: next player, or the final COMMIT
LoopNext(i) ==
    /\ idx' = [idx EXCEPT ![i] = @ + 1]
    /\ pc' = [pc EXCEPT ![i] = IF idx[i] + 1 > Len(roster[i]) THEN "commit" ELSE "stats"]

\* catch (error) of the for-loop body: console.error, on to the next player
Catch(i, thrown) ==
    caught' = [caught EXCEPT ![i] = IF thrown THEN @ \cup {CurrentPlayer(i)} ELSE @]

\* a statement failed: the transaction is failed from here on
TxAfter(i, failed) == tx' = [tx EXCEPT ![i] = IF failed THEN "failed" ELSE @]

\* generatePredictionsForMatch(matchId) is called; pool.connect()
Start(i) ==
    /\ pc[i] = "idle"
    /\ runs[i] < limit[i]
    /\ runs' = [runs EXCEPT ![i] = @ + 1]
    /\ pc' = [pc EXCEPT ![i] = "begin"]
    /\ results' = [results EXCEPT ![i] = <<>>]
    /\ outcome' = [outcome EXCEPT ![i] = "none"]
    /\ injected' = [injected EXCEPT ![i] = {}]
    /\ caught' = [caught EXCEPT ![i] = {}]
    /\ client' = [client EXCEPT ![i] = [held |-> TRUE, releases |-> 0, ends |-> 0]]
    /\ UNCHANGED <<engineVars, apiVars, scriptVars, dbVars, limit, arg, tx, writes, roster, idx,
                   prediction, existing, nfaults>>

\* client.query('BEGIN')
Begin(i) ==
    /\ pc[i] = "begin"
    /\ \E err \in BOOLEAN :
        /\ err => nfaults < MaxFaults
        /\ Book(i, err, "begin", 0)
        /\ tx' = [tx EXCEPT ![i] = IF err THEN "none" ELSE "open"]
        /\ pc' = [pc EXCEPT ![i] = IF err THEN "rollback" ELSE "match"]
    /\ UNCHANGED <<engineVars, apiVars, scriptVars, client, dbVars, limit, arg, runs, writes, roster, idx,
                   prediction, existing, results, outcome, caught>>

\* the matches query; an unknown matchId throws
SelectMatch(i) ==
    /\ pc[i] = "match"
    /\ \E err \in BOOLEAN :
        /\ MayFail(i, err)
        /\ Book(i, err, "match", 0)
        /\ TxAfter(i, err)
        /\ pc' = [pc EXCEPT ![i] =
                    IF err \/ Len(SelectMatchRows(arg[i])) = 0 THEN "rollback" ELSE "players"]
    /\ UNCHANGED <<engineVars, apiVars, scriptVars, client, dbVars, limit, arg, runs, writes, roster, idx,
                   prediction, existing, results, outcome, caught>>

\* the players query; no player: COMMIT and return []
SelectPlayers(i) ==
    /\ pc[i] = "players"
    /\ \E err \in BOOLEAN :
        /\ MayFail(i, err)
        /\ Book(i, err, "players", 0)
        /\ TxAfter(i, err)
        /\ LET rows == SelectRoster(MatchesTable[arg[i]])
           IN  /\ roster' = [roster EXCEPT ![i] = IF err THEN <<>> ELSE rows]
               /\ idx' = [idx EXCEPT ![i] = IF err \/ Len(rows) = 0 THEN 0 ELSE 1]
               /\ pc' = [pc EXCEPT ![i] =
                           IF err THEN "rollback"
                           ELSE IF Len(rows) = 0 THEN "commit" ELSE "stats"]
    /\ UNCHANGED <<engineVars, apiVars, scriptVars, client, dbVars, limit, arg, runs, writes,
                   prediction, existing, results, outcome, caught>>

\* the length test off by one: 14 rows are let through
TooFewGamesBelow14(rows) == Len(rows) < 14

\* if (statsResult.rows.length < 15): the player is skipped
TooFewGames(rows) == Len(rows) < 15

\* the player_game_stats query, the length test and generatePrediction
SelectStats(i) ==
    /\ pc[i] = "stats"
    /\ \E err \in BOOLEAN :
        /\ MayFail(i, err)
        /\ Book(i, err, "stats", CurrentPlayer(i))
        /\ TxAfter(i, err)
        /\ LET last15Games == SelectLastGames(player_game_stats, CurrentPlayer(i))
               r == generatePrediction([playerId |-> CurrentPlayer(i),
                                        matchId |-> arg[i],
                                        last15Games |-> last15Games])
               thrown == err \/ Refused(i) \/ (~TooFewGames(last15Games) /\ r.kind = "threw")
           IN  /\ Catch(i, thrown)
               /\ IF thrown \/ TooFewGames(last15Games)
                  THEN /\ LoopNext(i)
                       /\ UNCHANGED prediction
                  ELSE /\ prediction' = [prediction EXCEPT ![i] = r.value]
                       /\ pc' = [pc EXCEPT ![i] = "exists"]
                       /\ UNCHANGED idx
    /\ UNCHANGED <<engineVars, apiVars, scriptVars, client, dbVars, limit, arg, runs, writes, roster,
                   existing, results, outcome>>

\* SELECT id FROM predictions WHERE player_id = $1 AND match_id = $2
SelectExisting(i) ==
    /\ pc[i] = "exists"
    /\ \E err \in BOOLEAN :
        /\ MayFail(i, err)
        /\ Book(i, err, "exists", CurrentPlayer(i))
        /\ TxAfter(i, err)
        /\ Catch(i, err \/ Refused(i))
        /\ IF err \/ Refused(i)
           THEN /\ LoopNext(i)
                /\ UNCHANGED existing
           ELSE /\ existing' = [existing EXCEPT ![i] = ExistingRows(i, CurrentKey(i)) > 0]
                /\ pc' = [pc EXCEPT ![i] = "write"]
                /\ UNCHANGED idx
    /\ UNCHANGED <<engineVars, apiVars, scriptVars, client, dbVars, limit, arg, runs, writes, roster,
                   prediction, results, outcome>>

\* the UPDATE or the INSERT, then predictions.push
Write(i) ==
    /\ pc[i] = "write"
    /\ tx[i] = "open" =>
         ~(IF existing[i] THEN UpdateWaits(i, CurrentKey(i)) ELSE InsertWaits(i, CurrentKey(i)))
    /\ \E err \in BOOLEAN :
        /\ MayFail(i, err)
        /\ Book(i, err, "write", CurrentPlayer(i))
        /\ LET rejected == ~existing[i] /\ InsertRejected(i, CurrentKey(i))
               w == [op |-> IF existing[i] THEN "update" ELSE "insert",
                     key |-> CurrentKey(i), pred |-> prediction[i]]
           IN  /\ Catch(i, err \/ Refused(i) \/ rejected)
               /\ IF err \/ Refused(i) \/ rejected
                  THEN /\ tx' = [tx EXCEPT ![i] = "failed"]
                       /\ UNCHANGED <<writes, results>>
                  ELSE /\ writes' = [writes EXCEPT ![i] = Append(@, w)]
                       /\ results' = [results EXCEPT ![i] =
                                        Append(@, PlayerPrediction(CurrentPlayer(i), prediction[i]))]
                       /\ UNCHANGED tx
        /\ LoopNext(i)
    /\ UNCHANGED <<engineVars, apiVars, scriptVars, client, player_game_stats, predictions, limit, arg, runs,
                   roster, prediction, existing, outcome>>

\* COMMIT or ROLLBACK ends the transaction, if BEGIN had opened one
EndTx(c, state) == IF state = "none" THEN c ELSE [c EXCEPT !.ends = @ + 1]

\* release() on the way out of try only, not where the call throws
ReleaseUnlessThrown(c, thrown) ==
    IF thrown THEN c ELSE [c EXCEPT !.held = FALSE, !.releases = @ + 1]

\* finally: client.release(), whether the call returns or throws
Release(c, thrown) == [c EXCEPT !.held = FALSE, !.releases = @ + 1]

\* the locals of the invocation are gone once it has returned or thrown
DropLocals(i) ==
    /\ roster' = [roster EXCEPT ![i] = <<>>]
    /\ idx' = [idx EXCEPT ![i] = 0]
    /\ prediction' = [prediction EXCEPT ![i] = NoPrediction]
    /\ existing' = [existing EXCEPT ![i] = FALSE]

\* client.query('COMMIT'), return predictions, client.release().  In a failed
\* transaction COMMIT rolls back and reports no error.
Commit(i) ==
    /\ pc[i] = "commit"
    /\ \E err \in BOOLEAN :
        /\ MayFail(i, err)
        /\ Book(i, err, "commit", 0)
        /\ IF err
           THEN /\ tx' = [tx EXCEPT ![i] = "failed"]
                /\ pc' = [pc EXCEPT ![i] = "rollback"]
                /\ UNCHANGED <<predictions, writes, outcome, roster, idx,
                               prediction, existing, client>>
           ELSE /\ predictions' = IF Refused(i) THEN predictions
                                  ELSE ApplyWrites(predictions, writes[i])
                /\ writes' = [writes EXCEPT ![i] = <<>>]
                /\ tx' = [tx EXCEPT ![i] = "none"]
                /\ client' = [client EXCEPT ![i] = Release(EndTx(@, tx[i]), FALSE)]
                /\ outcome' = [outcome EXCEPT ![i] = "returned"]
                /\ pc' = [pc EXCEPT ![i] = "idle"]
                /\ DropLocals(i)
    /\ UNCHANGED <<engineVars, apiVars, scriptVars, player_game_stats, limit, arg, runs, results, caught>>

\* the outer catch: client.query('ROLLBACK'), throw error, client.release()
Rollback(i) ==
    /\ pc[i] = "rollback"
    /\ writes' = [writes EXCEPT ![i] = <<>>]
    /\ tx' = [tx EXCEPT ![i] = "none"]
    /\ client' = [client EXCEPT ![i] = Release(EndTx(@, tx[i]), TRUE)]
    /\ results' = [results EXCEPT ![i] = <<>>]
    /\ outcome' = [outcome EXCEPT ![i] = "threw"]
    /\ pc' = [pc EXCEPT ![i] = "idle"]
    /\ DropLocals(i)
    /\ UNCHANGED <<engineVars, apiVars, scriptVars, dbVars, limit, arg, runs, injected, caught, nfaults>>

-----------------------------------------------------------------------------
(* The read API, GET /api/predictions/:matchId (routes/predictions.ts).    *)
(* Its queries go through pool.query, each on its own, outside any         *)
(* transaction; the handler is one step.                                   *)

\* req.params.matchId after parseInt; NULL stands for NaN
RequestIds == MatchArgs \cup {NULL}

\* game_time against the clock: hoursDiff <= 0, 0 < hoursDiff <= 24, > 24
Hours == {"started", "within24", "beyond24"}

\* the query of the handler the database fails, if any
RouteFaults ==
    {<<"none", 0>>, <<"match", 0>>, <<"predictions", 0>>, <<"players", 0>>}
        \cup {<<"stats", p>> : p \in Players}

Answer(status, success, available, message, hasData, data) ==
    [status |-> status, success |-> success, predictionsAvailable |-> available,
     message |-> message, hasData |-> hasData,
     count |-> IF available = "true" THEN Len(data) ELSE NULL,
     data |-> data]

\* players with a row of predictions for the match
StoredPlayers(table, matchId) == {p \in Players : Len(table[<<p, matchId>>]) > 0}

\* a row of the predictions query (playerName left out; no player_status rows)
StoredEntry(table, p, matchId) ==
    LET row == table[<<p, matchId>>][1]
    IN  [playerId |-> p, team |-> PlayersTable[p], status |-> "active",
         points |-> row.points_threshold, rebounds |-> row.rebounds_threshold,
         assists |-> row.assists_threshold, gamesAnalyzed |-> row.games_analyzed,
         hasId |-> TRUE]

\* ORDER BY p.points_threshold DESC NULLS LAST (NULL is below every value);
\* rows with equal points come in id order
RECURSIVE StoredEntries(_, _, _)
StoredEntries(table, S, matchId) ==
    IF S = {} THEN <<>>
    ELSE LET first == CHOOSE p \in S : \A q \in S :
                        \/ table[<<p, matchId>>][1].points_threshold
                              > table[<<q, matchId>>][1].points_threshold
                        \/ /\ table[<<p, matchId>>][1].points_threshold
                              = table[<<q, matchId>>][1].points_threshold
                           /\ p <= q
         IN  <<StoredEntry(table, first, matchId)>>
                \o StoredEntries(table, S \ {first}, matchId)

\* predictions.push(...) of the handler's own loop
GeneratedEntry(p, pred) ==
    [playerId |-> p, team |-> PlayersTable[p], status |-> "active",
     points |-> pred.pointsThreshold, rebounds |-> pred.reboundsThreshold,
     assists |-> pred.assistsThreshold, gamesAnalyzed |-> pred.gamesAnalyzed,
     hasId |-> FALSE]

\* the handler's for-loop over playersResult.rows from position n on
RECURSIVE GeneratedEntries(_, _, _, _, _)
GeneratedEntries(players, n, matchId, fault, gstats) ==
    IF n > Len(players) THEN <<>>
    ELSE LET p == players[n]
             last15Games == SelectLastGames(gstats, p)
             r == generatePrediction([playerId |-> p, matchId |-> matchId,
                                      last15Games |-> last15Games])
             rest == GeneratedEntries(players, n + 1, matchId, fault, gstats)
         IN  IF fault = <<"stats", p>> \/ Len(last15Games) < 15 \/ r.kind = "threw"
             THEN rest
             ELSE <<GeneratedEntry(p, r.value)>> \o rest

\* the response of router.get('/:matchId')
PredictionsRoute(matchId, hours, fault, table, gstats) ==
    LET error500 == Answer(500, FALSE, "absent", "Failed to fetch predictions", FALSE, <<>>)
    IN  IF matchId = NULL
        THEN Answer(400, FALSE, "absent", "Invalid match ID", FALSE, <<>>)
        ELSE IF fault = <<"match", 0>>
        THEN error500
        ELSE IF Len(SelectMatchRows(matchId)) = 0
        THEN Answer(404, FALSE, "absent", "Match not found", FALSE, <<>>)
        ELSE IF hours = "started"
        THEN Answer(200, TRUE, "false", "Game has already started", FALSE, <<>>)
        ELSE IF hours = "beyond24"
        THEN Answer(200, TRUE, "false",
                    "Predictions coming soon. We are working on updated data.", FALSE, <<>>)
        ELSE IF fault = <<"predictions", 0>>
        THEN error500
        ELSE IF StoredPlayers(table, matchId) # {}
        THEN Answer(200, TRUE, "true", "", TRUE,
                    StoredEntries(table, StoredPlayers(table, matchId), matchId))
        ELSE IF fault = <<"players", 0>>
        THEN error500
        ELSE LET players == SelectRoster(MatchesTable[matchId])
             IN  IF Len(players) = 0
                 THEN Answer(200, TRUE, "false", "No player data available yet", TRUE, <<>>)
                 ELSE Answer(200, TRUE, "true", "", TRUE,
                             GeneratedEntries(players, 1, matchId, fault, gstats))

\* the handler gets as far as the query that fault names
Reaches(matchId, hours, fault, table) ==
    LET known == matchId # NULL /\ Len(SelectMatchRows(matchId)) > 0
        shown == known /\ hours = "within24"
        derived == shown /\ StoredPlayers(table, matchId) = {}
    IN  CASE fault[1] = "none"        -> TRUE
          [] fault[1] = "match"       -> matchId # NULL
          [] fault[1] = "predictions" -> shown
          [] fault[1] = "players"     -> derived
          [] fault[1] = "stats"       ->
                derived /\ \E n \in 1..Len(SelectRoster(MatchesTable[matchId])) :
                              SelectRoster(MatchesTable[matchId])[n] = fault[2]

NoRequest == [matchId |-> NULL, hours |-> "none", fault |-> <<"none", 0>>]

NoResponse == Answer(0, FALSE, "absent", "", FALSE, <<>>)

\* a client calls GET /api/predictions/:matchId and gets the response; one
\* request is followed, made at any moment of the service's run
GetPredictions(matchId, hours, fault) ==
    /\ request = NoRequest
    /\ Reaches(matchId, hours, fault, predictions)
    /\ request' = [matchId |-> matchId, hours |-> hours, fault |-> fault]
    /\ response' = PredictionsRoute(matchId, hours, fault, predictions, player_game_stats)
    /\ UNCHANGED <<engineVars, dbVars, callVars, scriptVars>>

-----------------------------------------------------------------------------
(* The maintenance scripts generatePredictionsForSchedule and              *)
(* fixMissingPredictions.  Both query the matches to process, call         *)
(* generatePredictionsForMatch for each in turn and end the shared pool.   *)

Scripts == {"schedule", "fix"}

\* the matches query: scheduled matches within 36 hours, ordered; the fix
\* script keeps those with COUNT(p.id) = 0
MatchesToProcess(s, scheduled, table) ==
    AscSeq({m \in scheduled : s = "fix" => StoredPlayers(table, m) = {}})

\* pool.end(): a pool that is ending already rejects the call
PoolEnd(p) == [ended |-> TRUE, endCalls |-> p.endCalls + 1]

\* the matches query; with no row: pool.end() and return
QueryMatches ==
    /\ spc = "start"
    /\ \E err \in BOOLEAN :
        /\ err => nfaults < MaxFaults
        /\ nfaults' = IF err THEN nfaults + 1 ELSE nfaults
        /\ LET rows == MatchesToProcess(script, upcoming, predictions)
           IN  IF err
               THEN /\ sout' = "threw"
                    /\ spc' = "finally"
                    /\ UNCHANGED <<found, todo, pool>>
               ELSE /\ found' = Len(rows)
                    /\ todo' = rows
                    /\ IF Len(rows) = 0
                       THEN /\ pool' = PoolEnd(pool)
                            /\ sout' = "returned"
                            /\ spc' = "finally"
                       ELSE /\ spc' = "loop"
                            /\ UNCHANGED <<sout, pool>>
    /\ UNCHANGED <<engineVars, apiVars, dbVars, script, upcoming, tally,
                   limit, arg, runs, pc, tx, writes, roster, idx, prediction,
                   existing, results, outcome, injected, caught, client>>

\* the loop calls generatePredictionsForMatch(match.id) and awaits it
CallMatch ==
    /\ spc = "loop"
    /\ arg' = [arg EXCEPT ![1] = Head(todo)]
    /\ limit' = [limit EXCEPT ![1] = runs[1] + 1]
    /\ spc' = "call"
    /\ UNCHANGED <<engineVars, apiVars, dbVars, script, upcoming, todo, found,
                   tally, sout, pool, runs, pc, tx, writes, roster, idx,
                   prediction, existing, results, outcome, injected, caught,
                   nfaults, client>>

\* the call has returned or thrown: count it, go on with the next match
AfterMatch ==
    /\ spc = "call"
    /\ runs[1] = limit[1]
    /\ pc[1] = "idle"
    /\ tally' = IF outcome[1] = "returned"
                THEN [tally EXCEPT !.processed = @ + 1,
                                   !.generated = @ + Len(results[1])]
                ELSE [tally EXCEPT !.errors = @ + 1]
    /\ todo' = Tail(todo)
    /\ IF Tail(todo) = <<>>
       THEN sout' = "returned" /\ spc' = "finally"
       ELSE spc' = "loop" /\ UNCHANGED sout
    /\ UNCHANGED <<engineVars, apiVars, dbVars, callVars, script, upcoming,
                   found, pool>>

\* finally: await pool.end(); its rejection replaces the script's completion
Finally ==
    /\ spc = "finally"
    /\ pool' = PoolEnd(pool)
    /\ sout' = IF pool.ended THEN "threw" ELSE sout
    /\ spc' = "done"
    /\ UNCHANGED <<engineVars, apiVars, dbVars, callVars, script, upcoming,
                   todo, found, tally>>

-----------------------------------------------------------------------------
(* Specifications *)

NoRows == [k \in Keys |-> <<>>]

\* rows an earlier refresh left for every player of match 1
StaleRows ==
    [k \in Keys |->
        IF k[2] = 1
        THEN <<[points_threshold |-> 10, rebounds_threshold |-> NULL,
                assists_threshold |-> NULL, games_analyzed |-> 15]>>
        ELSE <<>>]

CallInit ==
    /\ runs = [i \in Procs |-> 0]
    /\ pc = [i \in Procs |-> "idle"]
    /\ tx = [i \in Procs |-> "none"]
    /\ writes = [i \in Procs |-> <<>>]
    /\ roster = [i \in Procs |-> <<>>]
    /\ idx = [i \in Procs |-> 0]
    /\ prediction = [i \in Procs |-> NoPrediction]
    /\ existing = [i \in Procs |-> FALSE]
    /\ results = [i \in Procs |-> <<>>]
    /\ outcome = [i \in Procs |-> "none"]
    /\ injected = [i \in Procs |-> {}]
    /\ caught = [i \in Procs |-> {}]
    /\ client = [i \in Procs |-> [held |-> FALSE, releases |-> 0, ends |-> 0]]
    /\ nfaults = 0

\* the engine is not driven
EngineOff ==
    /\ games = <<>>
    /\ imputedGames = <<>>
    /\ out = NoOutput
    /\ epc = "off"

NoTally == [processed |-> 0, generated |-> 0, errors |-> 0]

OpenPool == [ended |-> FALSE, endCalls |-> 0]

\* no maintenance script runs
ScriptOff ==
    /\ script = "none"
    /\ upcoming = {}
    /\ spc = "off"
    /\ todo = <<>>
    /\ found = NULL
    /\ tally = NoTally
    /\ sout = "none"
    /\ pool = OpenPool

\* no request has been made of the read API
ApiOff ==
    /\ request = NoRequest
    /\ response = NoResponse

\* no caller invokes the service
ServiceOff ==
    /\ player_game_stats = [p \in Players |-> HistShort]
    /\ predictions = NoRows
    /\ limit = [i \in Procs |-> 0]
    /\ arg = [i \in Procs |-> 1]
    /\ CallInit
    /\ ApiOff
    /\ ScriptOff

\* the engine alone, on the windows AddGame builds
InitEngine == EngineInit /\ ServiceOff

\* one caller invoking the service MaxRuns times in succession
Init ==
    /\ EngineOff
    /\ ApiOff
    /\ ScriptOff
    /\ player_game_stats \in [Players -> Histories \cup {HistNone}]
    /\ predictions \in {NoRows, StaleRows}
    /\ limit = [i \in Procs |-> IF i = 1 THEN MaxRuns ELSE 0]
    /\ arg \in {[i \in Procs |-> m] : m \in MatchArgs}
    /\ CallInit

\* two callers, one invocation each, at the same time
InitConc ==
    /\ EngineOff
    /\ ApiOff
    /\ ScriptOff
    /\ player_game_stats \in [Players -> Histories]
    /\ predictions \in {NoRows, StaleRows}
    /\ limit = [i \in Procs |-> 1]
    /\ arg \in [Procs -> MatchArgs]
    /\ CallInit

Next ==
    \E i \in Procs :
        \/ Start(i)
        \/ Begin(i)
        \/ SelectMatch(i)
        \/ SelectPlayers(i)
        \/ SelectStats(i)
        \/ SelectExisting(i)
        \/ Write(i)
        \/ Commit(i)
        \/ Rollback(i)

EngineNext ==
    \/ \E k \in Kinds : AddGame(k)
    \/ \E at \in 1..15 : LoadScenario(at)
    \/ \E at \in 1..15 : LoadLonePlayed(at)
    \/ Generate

\* one invocation of the service, and clients of the read API at any time
InitApi ==
    /\ EngineOff
    /\ ApiOff
    /\ ScriptOff
    /\ player_game_stats \in [Players -> Histories]
    /\ predictions \in {NoRows, StaleRows}
    /\ limit = [i \in Procs |-> IF i = 1 THEN 1 ELSE 0]
    /\ arg \in {[i \in Procs |-> m] : m \in MatchArgs}
    /\ CallInit

ApiNext ==
    \/ Next
    \/ \E matchId \in RequestIds : \E hours \in Hours : \E fault \in RouteFaults :
          GetPredictions(matchId, hours, fault)

\* one of the two scripts is run, over the matches that are upcoming
InitScripts ==
    /\ EngineOff
    /\ ApiOff
    /\ script \in Scripts
    /\ upcoming \in SUBSET DOMAIN MatchesTable
    /\ spc = "start"
    /\ todo = <<>>
    /\ found = NULL
    /\ tally = NoTally
    /\ sout = "none"
    /\ pool = OpenPool
    /\ player_game_stats \in [Players -> {HistFull, HistShort}]
    /\ predictions \in {NoRows, StaleRows}
    /\ limit = [i \in Procs |-> 0]
    /\ arg = [i \in Procs |-> 1]
    /\ CallInit

ScriptsNext ==
    \/ QueryMatches
    \/ CallMatch
    \/ AfterMatch
    \/ Finally
    \/ Next

Spec == Init /\ [][Next]_vars

SpecScripts == InitScripts /\ [][ScriptsNext]_vars

SpecApi == InitApi /\ [][ApiNext]_vars

SpecConc == InitConc /\ [][Next]_vars

SpecEngine == InitEngine /\ [][EngineNext]_vars

-----------------------------------------------------------------------------
(* Properties of the engine, checked under SpecEngine *)

Stats == {"points", "rebounds", "assists"}

ThresholdField(s) ==
    CASE s = "points"   -> "pointsThreshold"
      [] s = "rebounds" -> "reboundsThreshold"
      [] s = "assists"  -> "assistsThreshold"

\* the per-game values of stat s along window w
StatSeq(w, s) == [i \in 1..Len(w) |-> w[i][s]]

NumAtLeast(vals, c) == Cardinality({i \in 1..Len(vals) : vals[i] >= c})

Qualifies(vals, c, q) == NumAtLeast(vals, c) >= q

\* r is the highest candidate of the ladder that qualifies, NULL if none does
HighestQualifying(r, vals, ladder, q) ==
    /\ r # NULL => /\ \E i \in 1..Len(ladder) : ladder[i] = r
                   /\ Qualifies(vals, r, q)
    /\ \A i \in 1..Len(ladder) : ladder[i] > r => ~Qualifies(vals, ladder[i], q)

PlayedIdx == {i \in 1..Len(games) : games[i].minutes > 0}
UnplayedIdx == {i \in 1..Len(games) : games[i].minutes = 0}

RECURSIVE SumOver(_, _)
SumOver(ix, s) ==
    IF ix = {} THEN 0
    ELSE LET i == CHOOSE x \in ix : TRUE
         IN  games[i][s] + SumOver(ix \ {i}, s)

\* v is mean = sum / n rounded to the nearest integer, ties up
IsHalfUp(v, sum, n) == 2 * n * v - n <= 2 * sum /\ 2 * sum < 2 * n * v + n

Returned == epc = "done" /\ out.kind = "returned"

\* C1: a window whose length is not 15 makes generatePrediction throw the
\* validation error: no output is produced and nothing is imputed, so the
\* window is neither truncated nor padded.
C1_WrongLengthThrows ==
    (epc = "done" /\ Len(games) # 15) =>
        /\ out.kind = "threw"
        /\ out.value = <<>>
        /\ imputedGames = <<>>

C1_Witness == epc = "done" /\ Len(games) = 16 /\ out.kind = "threw"

\* C2: with at least one played game, each unplayed game's points, rebounds
\* and assists after imputation are the played games' mean of that stat
\* rounded half-up, each stat on its own.
C2_ImputedIsRoundedMean ==
    (Returned /\ PlayedIdx # {}) =>
        \A i \in UnplayedIdx : \A s \in Stats :
            IsHalfUp(imputedGames[i][s], SumOver(PlayedIdx, s), Cardinality(PlayedIdx))

\* the mean of the played games' points is 24.5 and the unplayed game gets 25
C2_Witness ==
    /\ Returned
    /\ UnplayedIdx # {}
    /\ 2 * SumOver(PlayedIdx, "points") = 49 * Cardinality(PlayedIdx)
    /\ \A i \in UnplayedIdx : imputedGames[i].points = 25

\* C3: for each stat the returned threshold is the highest candidate of the
\* ladder met by at least QUALIFYING_COUNT of the 15 values: it qualifies
\* and no candidate above it does.
C3_HighestQualifyingWins ==
    Returned =>
        \A s \in Stats :
            LET r == out.value[ThresholdField(s)]
                vals == StatSeq(imputedGames, s)
            IN  /\ HighestQualifying(r, vals, THRESHOLDS[s], 14)
                /\ \A i \in 1..Len(THRESHOLDS[s]) :
                      Qualifies(vals, THRESHOLDS[s][i], 14) =>
                          r # NULL /\ r >= THRESHOLDS[s][i]

\* 25 and the lower candidates qualify, 30 does not: 25 is returned
C3_Witness ==
    /\ Returned
    /\ out.value.pointsThreshold = 25
    /\ Qualifies(StatSeq(imputedGames, "points"), 20, 14)
    /\ ~Qualifies(StatSeq(imputedGames, "points"), 30, 14)

\* C4: when even the lowest candidate of the ladder is met by fewer than
\* QUALIFYING_COUNT games, the threshold is null (not 0, not the lowest one).
C4_NullWhenNoneQualifies ==
    Returned =>
        \A s \in Stats :
            LET ladder == THRESHOLDS[s]
                r == out.value[ThresholdField(s)]
            IN  ~Qualifies(StatSeq(imputedGames, s), ladder[Len(ladder)], 14) =>
                    r = NULL /\ r # 0 /\ r # ladder[Len(ladder)]

C4_Witness ==
    /\ Returned
    /\ PlayedIdx # {}
    /\ ~Qualifies(StatSeq(imputedGames, "points"), 10, 14)
    /\ out.value.pointsThreshold = NULL

\* C9: for the same values and ladder a lower qualifying count never gives a
\* lower threshold (null below every threshold):
\* result(10) >= result(14) >= result(15).
C9_MonotoneInQualifyingCount ==
    Returned =>
        \A s \in Stats :
            LET vals == StatSeq(imputedGames, s)
            IN  /\ evaluateWith(vals, THRESHOLDS[s], 10) >= evaluateWith(vals, THRESHOLDS[s], 14)
                /\ evaluateWith(vals, THRESHOLDS[s], 14) >= evaluateWith(vals, THRESHOLDS[s], 15)
                /\ evaluateWith(vals, THRESHOLDS[s], 14) = out.value[ThresholdField(s)]

\* the three counts give three different results
C9_Witness ==
    /\ Returned
    /\ LET vals == StatSeq(imputedGames, "points")
       IN  /\ evaluateWith(vals, THRESHOLDS.points, 10) > evaluateWith(vals, THRESHOLDS.points, 14)
           /\ evaluateWith(vals, THRESHOLDS.points, 14) > evaluateWith(vals, THRESHOLDS.points, 15)
           /\ evaluateWith(vals, THRESHOLDS.points, 15) # NULL

\* C10: a 15-game window with minutes = 0 in every game comes back from
\* imputation unchanged, and generatePrediction returns an output whose
\* thresholds are those of the unmodified stats.
C10_NoPlayedGamesUnchanged ==
    (epc = "done" /\ Len(games) = 15 /\ PlayedIdx = {}) =>
        /\ out.kind = "returned"
        /\ imputedGames = games
        /\ \A s \in Stats :
              HighestQualifying(out.value[ThresholdField(s)], StatSeq(games, s),
                                THRESHOLDS[s], 14)
        /\ out.value.gamesAnalyzed = 15

\* every game has minutes = 0 and carries 12 points: the threshold is 10
C10_Witness ==
    /\ epc = "done" /\ Len(games) = 15 /\ PlayedIdx = {}
    /\ \A i \in 1..15 : games[i].points = 12
    /\ out.kind = "returned"
    /\ out.value.pointsThreshold = 10

-----------------------------------------------------------------------------
(* Properties of generatePredictionsForMatch *)

\* at least 15 game rows are stored for the player
Eligible(p) == Cardinality(player_game_stats[p]) >= 15

\* the row the engine's output for p's 15 newest games amounts to
DerivedRow(p, m) ==
    InsertedRow(generatePrediction([playerId |-> p, matchId |-> m,
                    last15Games |-> SelectLastGames(player_game_stats, p)]).value)

\* caller i's invocation has returned or thrown
Finished(i) == pc[i] = "idle" /\ outcome[i] # "none"

ReturnedPlayers(i) == {results[i][n].playerId : n \in 1..Len(results[i])}

\* C5: a second run in succession for the same match, rosters and game
\* stats unchanged and no statement failing, leaves the table as the first
\* run left it: one row per (eligible player, match), the same thresholds
\* and games_analyzed.
C5_SecondRunSameRows ==
    [][\A i \in Procs :
          (pc[i] = "commit" /\ pc'[i] = "idle" /\ runs[i] >= 2 /\ nfaults' = 0)
              => /\ predictions' = predictions
                 /\ \A k \in Keys : Len(predictions'[k]) <= 1
                 /\ \A p \in Players :
                       (Eligible(p) /\ arg[i] = 1) => Len(predictions'[<<p, 1>>]) = 1]_vars

\* two clean runs for match 1 have returned, the second with two players
C5_Witness ==
    /\ runs[1] = 2 /\ Finished(1) /\ outcome[1] = "returned" /\ nfaults = 0
    /\ Len(results[1]) >= 2
    /\ \A n \in 1..Len(results[1]) :
          predictions[<<results[1][n].playerId, 1>>]
              = <<DerivedRow(results[1][n].playerId, 1)>>

\* C6: with two invocations at the same time, whatever the interleaving of
\* their existence checks, inserts, updates and commits, the table never
\* holds more than one row for a (player, match) pair.
C6_NoDuplicateRows == \A k \in Keys : Len(predictions[k]) <= 1

\* an INSERT was rejected for the key the other invocation had committed
C6_Witness ==
    /\ nfaults = 0
    /\ \E i \in Procs : tx[i] = "failed"
    /\ \E p \in Players : Len(predictions[<<p, 1>>]) = 1
    /\ \A i \in Procs : runs[i] = 1

\* C7: when the load of one player's game window throws, every other
\* eligible player of the match has its derived row in the table once the
\* call has returned.
C7_LoadFailureSparesOthers ==
    \A i \in Procs : \A x \in Players :
        (Finished(i) /\ arg[i] = 1 /\ injected[i] = {<<"stats", x>>}) =>
            \A p \in Players \ {x} :
                Eligible(p) => predictions[<<p, 1>>] = <<DerivedRow(p, 1)>>

\* C8: when the write for one player fails, the call still returns (does
\* not throw), the other players are processed, and the returned list holds
\* exactly the players whose processing succeeded: the eligible ones but x.
C8_WriteFailureSparesOthers ==
    \A i \in Procs : \A x \in Players :
        (Finished(i) /\ arg[i] = 1 /\ injected[i] = {<<"write", x>>}) =>
            /\ outcome[i] = "returned"
            /\ ReturnedPlayers(i) = {p \in Players : Eligible(p)} \ {x}

-----------------------------------------------------------------------------
(* Engine: boundary, ladder membership, worked example *)

NumEqual(vals, c) == Cardinality({j \in 1..Len(vals) : vals[j] = c})
NumAbove(vals, c) == Cardinality({j \in 1..Len(vals) : vals[j] > c})

\* C11: a value equal to the candidate counts toward it: a candidate that
\* reaches 14 only with the values exactly equal to it is returned, as when
\* 14 games are exactly at the candidate and 1 game is below.
C11_EqualValueCounts ==
    Returned =>
        \A s \in Stats :
            LET r == out.value[ThresholdField(s)]
                vals == StatSeq(imputedGames, s)
            IN  \A i \in 1..Len(THRESHOLDS[s]) :
                    LET c == THRESHOLDS[s][i]
                    IN  (/\ NumEqual(vals, c) + NumAbove(vals, c) >= 14
                         /\ NumAbove(vals, c) < 14) => r = c

\* 14 games at exactly 25 points and 1 game below: 25 is returned
C11_Witness ==
    /\ Returned
    /\ NumEqual(StatSeq(imputedGames, "points"), 25) = 14
    /\ NumAbove(StatSeq(imputedGames, "points"), 25) = 0
    /\ out.value.pointsThreshold = 25

\* C12: for a window of 15 games each of the three thresholds returned is
\* null or one of the configured values of its own stat: points 30, 25, 20,
\* 15, 10; rebounds 12, 10, 8, 6, 4; assists 10, 8, 6, 4, 2.
C12_OnlyLadderValues ==
    (epc = "done" /\ Len(games) = 15) =>
        /\ out.kind = "returned"
        /\ out.value.pointsThreshold \in {NULL, 30, 25, 20, 15, 10}
        /\ out.value.reboundsThreshold \in {NULL, 12, 10, 8, 6, 4}
        /\ out.value.assistsThreshold \in {NULL, 10, 8, 6, 4, 2}

\* each stat gets a value of its own ladder: 20 points, 4 rebounds, 2 assists
C12_Witness ==
    /\ Returned
    /\ out.value.pointsThreshold = 20
    /\ out.value.reboundsThreshold = 4
    /\ out.value.assistsThreshold = 2

\* C13: the window of one game with minutes = 0 and 14 played games with
\* points 28, 26, 31, 25, 27, 29, 32, 26, 24, 30, 28, 27, 26, 25: the game
\* not played is imputed to 27 points, 14 of the 15 values are at least 25
\* and generatePrediction returns pointsThreshold = 25.
C13_WorkedExample ==
    (epc = "done" /\ \E at \in 1..15 : games = ScenarioWindow(at)) =>
        /\ out.kind = "returned"
        /\ \A i \in UnplayedIdx : imputedGames[i].points = 27
        /\ NumAtLeast(StatSeq(imputedGames, "points"), 25) = 14
        /\ NumAtLeast(StatSeq(imputedGames, "points"), 30) = 3
        /\ out.value.pointsThreshold = 25

\* the missed game is the eighth of the window
C13_Witness ==
    /\ epc = "done"
    /\ games = ScenarioWindow(8)
    /\ imputedGames[8].points = 27
    /\ out.value.pointsThreshold = 25

-----------------------------------------------------------------------------
(* Orchestrator: skipping, short-circuit, upsert, rows kept *)

\* C14: a player with fewer than 15 game rows is skipped: it is never in the
\* returned list, no insert or update is made for it and its row, if any,
\* stays as it was; the skip raises no error (nothing is caught, the
\* transaction stays open) and the loop goes on to the next player, so a run
\* without failures returns exactly the eligible players.
C14_TooFewGamesSkipped ==
    [][\A i \in Procs :
          /\ \A p \in Players :
                ~Eligible(p) =>
                    /\ p \notin ReturnedPlayers(i)'
                    /\ \A n \in 1..Len(writes'[i]) : writes'[i][n].key[1] # p
                    /\ \A m \in DOMAIN MatchesTable :
                          predictions'[<<p, m>>] = predictions[<<p, m>>]
                    /\ (/\ pc[i] = "stats"
                        /\ CurrentPlayer(i) = p
                        /\ tx[i] = "open"
                        /\ nfaults' = nfaults) =>
                            /\ caught'[i] = caught[i]
                            /\ tx'[i] = "open"
                            /\ outcome'[i] = "none"
                            /\ idx'[i] = idx[i] + 1
                            /\ pc'[i] = IF idx[i] < Len(roster[i]) THEN "stats" ELSE "commit"
          /\ (pc[i] = "commit" /\ pc'[i] = "idle" /\ nfaults' = 0 /\ arg[i] = 1) =>
                ReturnedPlayers(i)' = {q \in Players : Eligible(q)}]_vars

\* player 1 had 14 rows and was skipped, a later player was returned
C14_Witness ==
    /\ Finished(1) /\ outcome[1] = "returned" /\ arg[1] = 1 /\ nfaults = 0
    /\ ~Eligible(1)
    /\ caught[1] = {}
    /\ predictions[<<1, 1>>] = <<>>
    /\ \E q \in ReturnedPlayers(1) : q > 1 /\ predictions[<<q, 1>>] = <<DerivedRow(q, 1)>>

\* C15: a failure at the level of the match ends the call before any work
\* for a player.  For an unknown matchId the matches query finds no row:
\* the call throws, having reached neither the players query nor a player,
\* and the table is as before.  For a match whose two rosters are empty the
\* players query gives no row: the call commits and returns the empty list,
\* having reached no player, and the table is as before.
C15_MatchLevelShortCircuit ==
    [][\A i \in Procs :
          /\ arg[i] = 3 =>
                /\ pc'[i] \in {"idle", "begin", "match", "rollback"}
                /\ writes'[i] = <<>> /\ results'[i] = <<>>
                /\ predictions' = predictions
                /\ (pc[i] = "match" /\ pc'[i] # "match") => pc'[i] = "rollback"
                /\ (pc[i] = "rollback" /\ pc'[i] = "idle") => outcome'[i] = "threw"
                /\ outcome'[i] # "returned"
          /\ arg[i] = 2 =>
                /\ pc'[i] \in {"idle", "begin", "match", "players", "commit", "rollback"}
                /\ writes'[i] = <<>> /\ results'[i] = <<>>
                /\ predictions' = predictions
                /\ (pc[i] = "players" /\ pc'[i] # "players" /\ nfaults' = nfaults)
                      => pc'[i] = "commit"
                /\ (pc[i] = "commit" /\ pc'[i] = "idle")
                      => outcome'[i] = "returned" /\ results'[i] = <<>>]_vars

\* the call for the match without players has returned the empty list
C15_Witness ==
    /\ Finished(1) /\ arg[1] = 2 /\ nfaults = 0
    /\ outcome[1] = "returned" /\ results[1] = <<>>
    /\ predictions = StaleRows

\* C16: when an invocation commits, every player it returns has exactly one
\* row for (player, match) holding the newly computed thresholds and
\* gamesAnalyzed: a row that was there is overwritten and stays the only
\* one, a missing row is inserted once; all other keys are left alone.
C16_UpsertOneRow ==
    [][\A i \in Procs :
          (pc[i] = "commit" /\ pc'[i] = "idle" /\ tx[i] = "open") =>
              \A k \in Keys :
                  IF k[2] = arg[i] /\ k[1] \in ReturnedPlayers(i)
                  THEN /\ Len(predictions[k]) \in {0, 1}
                       /\ predictions'[k] = <<DerivedRow(k[1], k[2])>>
                       /\ \E n \in 1..Len(results[i]) :
                             /\ results[i][n].playerId = k[1]
                             /\ predictions'[k][1] =
                                  [points_threshold   |-> results[i][n].points,
                                   rebounds_threshold |-> results[i][n].rebounds,
                                   assists_threshold  |-> results[i][n].assists,
                                   games_analyzed     |-> results[i][n].gamesAnalyzed]
                  ELSE predictions'[k] = predictions[k]]_vars

\* the first run overwrote the earlier row of a player it returned, and the
\* earlier row of a skipped player is still there
C16_Witness ==
    /\ Finished(1) /\ runs[1] = 1 /\ arg[1] = 1 /\ nfaults = 0
    /\ \E p \in Players : ~Eligible(p) /\ predictions[<<p, 1>>] = StaleRows[<<p, 1>>]
    /\ \E q \in ReturnedPlayers(1) :
          /\ predictions[<<q, 1>>] = <<DerivedRow(q, 1)>>
          /\ predictions[<<q, 1>>] # StaleRows[<<q, 1>>]

\* C17: when a run in which a statement failed comes to its end, the rows
\* of the inserts and updates it had executed by then are in the table with
\* the values the run wrote.
C17_EarlierRowsRemain ==
    [][\A i \in Procs :
          (pc[i] \in {"commit", "rollback"} /\ pc'[i] = "idle" /\ injected'[i] # {}) =>
              \A n \in 1..Len(writes[i]) :
                  predictions'[writes[i][n].key] = <<InsertedRow(writes[i][n].pred)>>]_vars

\* C18: every output generatePrediction hands to the orchestrator, every
\* record the orchestrator returns, every insert or update it sends and
\* every row of the table has gamesAnalyzed = 15, whether the window had
\* games not played (imputed), only such games, or none.
C18_GamesAnalyzedIs15 ==
    /\ \A i \in Procs :
          /\ prediction[i] # NoPrediction => prediction[i].gamesAnalyzed = 15
          /\ \A n \in 1..Len(writes[i]) : writes[i][n].pred.gamesAnalyzed = 15
          /\ \A n \in 1..Len(results[i]) : results[i][n].gamesAnalyzed = 15
    /\ \A k \in Keys : \A n \in 1..Len(predictions[k]) :
          predictions[k][n].games_analyzed = 15

\* a player who played none of the 15 games and a player who missed one of
\* them both got their rows from this run
C18_Witness ==
    /\ Finished(1) /\ arg[1] = 1 /\ nfaults = 0 /\ runs[1] = 1
    /\ \E p, q \in ReturnedPlayers(1) :
          /\ player_game_stats[p] = HistBench
          /\ player_game_stats[q] = HistFull
          /\ predictions[<<p, 1>>] = <<[points_threshold |-> NULL, rebounds_threshold |-> NULL,
                                        assists_threshold |-> NULL, games_analyzed |-> 15]>>
          /\ Len(predictions[<<q, 1>>]) = 1
          /\ predictions[<<q, 1>>][1].games_analyzed = 15
          /\ predictions[<<q, 1>>][1].points_threshold = 25

-----------------------------------------------------------------------------
(* Engine: what imputeStats leaves alone *)

\* imputeStats kept length and order, every played record, and date, opponent
\* and minutes of every record not played; flagged tells whether the records
\* not played must carry isImputed = true
KeepsWindow(before, after, flagged) ==
    /\ Len(after) = Len(before)
    /\ \A i \in 1..Len(before) :
          /\ before[i].minutes > 0 => after[i] = before[i]
          /\ before[i].minutes = 0 =>
                /\ after[i].date = before[i].date
                /\ after[i].opponent = before[i].opponent
                /\ after[i].minutes = before[i].minutes
                /\ IF flagged THEN after[i].isImputed = TRUE ELSE after[i] = before[i]

\* C19 as stated: imputeStats returns a window of the same length and order
\* in which every played record is identical to the input record and every
\* record with minutes = 0 keeps date, opponent and minutes and has
\* isImputed = true; the input window is left as it was.
C19_UnplayedAlwaysFlagged ==
    [][(epc # "done" /\ epc' = "done" /\ Len(games) = 15) =>
          /\ games' = games
          /\ KeepsWindow(games, imputedGames', TRUE)]_vars

\* C19 amended: the records with minutes = 0 have isImputed = true when at
\* least one game of the window was played; when none was played the window
\* is returned as it is, flags included.
C19_UnplayedFlaggedIfAnyPlayed ==
    [][(epc # "done" /\ epc' = "done" /\ Len(games) = 15) =>
          /\ games' = games
          /\ KeepsWindow(games, imputedGames', PlayedIdx # {})]_vars

\* a window with games not played, now flagged, and played games of which
\* one came in with isImputed = true and went through as it was
C19_Witness ==
    /\ Returned
    /\ UnplayedIdx # {}
    /\ \A i \in UnplayedIdx : imputedGames[i].isImputed /\ ~games[i].isImputed
    /\ \E i \in PlayedIdx : games[i].isImputed /\ imputedGames[i] = games[i]
    /\ \E i \in PlayedIdx : ~games[i].isImputed /\ imputedGames[i] = games[i]

-----------------------------------------------------------------------------
(* Orchestrator: rows are never removed *)

\* C20: no step of any invocation removes a prediction row: a (player,
\* match) key that has a row keeps having one, whether the player is
\* returned, skipped or fails in the run at hand.
C20_RowsNeverRemoved ==
    [][\A k \in Keys : Len(predictions'[k]) >= Len(predictions[k])]_vars

\* the first run wrote the row of a player whose processing failed in the
\* second run, and the row of a skipped player is there from before
C20_Witness ==
    /\ runs[1] = 2 /\ Finished(1) /\ arg[1] = 1
    /\ \E p \in caught[1] :
          /\ Eligible(p)
          /\ p \notin ReturnedPlayers(1)
          /\ predictions[<<p, 1>>] = <<DerivedRow(p, 1)>>
    /\ \E q \in Players : ~Eligible(q) /\ predictions[<<q, 1>>] = StaleRows[<<q, 1>>]

-----------------------------------------------------------------------------
(* The read API *)

\* caller i's invocation computed the match and no player qualified
ComputedEmpty(i) ==
    /\ Finished(i) /\ outcome[i] = "returned" /\ injected[i] = {}
    /\ arg[i] \in DOMAIN MatchesTable
    /\ results[i] = <<>>

\* C21: once a match has been computed with no qualifying player, some
\* request for it is answered differently than it is for the same match
\* never computed (no row of predictions), the game rows being the same.
C21_ComputedEmptyDistinguishable ==
    \A i \in Procs :
        ComputedEmpty(i) =>
            \E hours \in Hours :
                PredictionsRoute(arg[i], hours, <<"none", 0>>, predictions, player_game_stats)
                    # PredictionsRoute(arg[i], hours, <<"none", 0>>, NoRows, player_game_stats)

\* C22: a request whose derivation met an error (the players query or a
\* game rows query failed) is answered with predictionsAvailable false and
\* not with the internal error response.
C22_DerivationErrorNotAvailable ==
    request.fault[1] \in {"players", "stats"} =>
        /\ response.status = 200
        /\ response.predictionsAvailable = "false"

-----------------------------------------------------------------------------
(* Orchestrator: what a normal return means, the window handed on, order *)

\* C23: when the call has returned normally, every record of the returned
\* list has its row in the table, with the record's three thresholds and
\* gamesAnalyzed, also when a statement for another player failed.
C23_ReturnedRecordsCommitted ==
    \A i \in Procs :
        (Finished(i) /\ outcome[i] = "returned") =>
            \A n \in 1..Len(results[i]) :
                predictions[<<results[i][n].playerId, arg[i]>>] =
                    <<[points_threshold   |-> results[i][n].points,
                       rebounds_threshold |-> results[i][n].rebounds,
                       assists_threshold  |-> results[i][n].assists,
                       games_analyzed     |-> results[i][n].gamesAnalyzed]>>

\* the rows of w are the 15 most recent rows of the set rows, newest first
MostRecent15(w, rows) ==
    /\ Len(w) = 15
    /\ \A n \in 1..15 : w[n] \in rows
    /\ \A n \in 1..14 : w[n].date > w[n + 1].date
    /\ \A r \in rows : r.date >= w[15].date => \E n \in 1..15 : w[n] = r

\* C24: the orchestrator hands the engine a window of exactly 15 games or
\* does not call it: with fewer than 15 stored rows (none included) no
\* prediction is derived; otherwise the prediction is the engine's for the
\* 15 most recent rows; and unless the database fails a statement nothing is
\* thrown in the step, so the validation error does not occur.
C24_EngineGets15Games ==
    [][\A i \in Procs :
          (pc[i] = "stats" /\ (pc'[i] # "stats" \/ idx'[i] # idx[i])) =>
              LET p == CurrentPlayer(i)
                  w == SelectLastGames(player_game_stats, p)
              IN  /\ Cardinality(player_game_stats[p]) < 15 =>
                        pc'[i] # "exists" /\ prediction'[i] = prediction[i]
                  /\ pc'[i] = "exists" =>
                        /\ MostRecent15(w, player_game_stats[p])
                        /\ prediction'[i] =
                              generatePrediction([playerId |-> p, matchId |-> arg[i],
                                                  last15Games |-> w]).value
                  /\ (nfaults' = nfaults /\ tx[i] = "open") =>
                        /\ caught'[i] = caught[i]
                        /\ Cardinality(player_game_stats[p]) >= 15 => pc'[i] = "exists"]_vars

\* a player with 17 rows has its prediction from the 15 newest (the two
\* oldest would bring 30 points down), after a player with no row was passed
C24_Witness ==
    /\ pc[1] = "exists"
    /\ Cardinality(player_game_stats[CurrentPlayer(1)]) = 17
    /\ prediction[1].pointsThreshold = 30
    /\ caught[1] = {}
    /\ \E q \in Players : q < CurrentPlayer(1) /\ player_game_stats[q] = HistNone

-----------------------------------------------------------------------------
(* Engine: the stats do not influence one another; imputed values in range *)

\* the window w with every stat but s replaced: by the constant c, or by the
\* value the game at the mirrored position had
OthersReplaced(w, s, c, mirrored) ==
    [i \in 1..Len(w) |->
        [f \in DOMAIN w[i] |->
            IF f \in Stats \ {s}
            THEN IF mirrored THEN w[Len(w) + 1 - i][f] ELSE c
            ELSE w[i][f]]]

\* C25: the threshold of a stat depends on the minutes and on that stat
\* only: a window that differs from the one evaluated in the other two stats
\* alone (here: set to 0, to 9, to 40, or taken from the mirrored position)
\* gets the same threshold for it.
C25_StatsIndependent ==
    (Returned /\ Len(games) = 15) =>
        \A s \in Stats : \A c \in {0, 9, 40} : \A mirrored \in BOOLEAN :
            LET other == generatePrediction([playerId |-> 1, matchId |-> 1,
                              last15Games |-> OthersReplaced(games, s, c, mirrored)])
            IN  /\ other.kind = "returned"
                /\ other.value[ThresholdField(s)] = out.value[ThresholdField(s)]

\* a window with games not played whose rebounds and assists, replaced,
\* would change the other thresholds but not the points threshold 25
C25_Witness ==
    /\ Returned /\ Len(games) = 15
    /\ UnplayedIdx # {} /\ PlayedIdx # {}
    /\ out.value.pointsThreshold = 25
    /\ out.value.reboundsThreshold = 10
    /\ generatePrediction([playerId |-> 1, matchId |-> 1,
          last15Games |-> OthersReplaced(games, "points", 0, FALSE)]).value.reboundsThreshold = NULL

\* C26: within an invocation the players of the two rosters are handled one
\* after another, each exactly once: the roster lists each of them once, the
\* loop goes through it position by position, for each player in the order
\* load and derive, existence check, write; a write is for the player at
\* hand, carries the prediction derived for that player, and is the only
\* write of the invocation for that player.
C26_OnePlayerAtATime ==
    [][\A i \in Procs :
          /\ (pc[i] = "players" /\ pc'[i] \in {"stats", "commit"}) =>
                /\ {roster'[i][n] : n \in 1..Len(roster'[i])} =
                      {p \in Players : PlayersTable[p] \in
                          {MatchesTable[arg[i]].home_team_id, MatchesTable[arg[i]].away_team_id}}
                /\ \A a, b \in 1..Len(roster'[i]) : a # b => roster'[i][a] # roster'[i][b]
                /\ pc'[i] = "stats" => idx'[i] = 1
          /\ (pc[i] \in {"stats", "exists", "write"}) =>
                /\ roster'[i] = roster[i]
                /\ \/ idx'[i] = idx[i] /\ pc'[i] = pc[i]
                   \/ idx'[i] = idx[i] /\ pc[i] = "stats" /\ pc'[i] = "exists"
                   \/ idx'[i] = idx[i] /\ pc[i] = "exists" /\ pc'[i] = "write"
                   \/ idx'[i] = idx[i] + 1 /\ idx[i] < Len(roster[i]) /\ pc'[i] = "stats"
                   \/ idx'[i] = idx[i] + 1 /\ idx[i] = Len(roster[i]) /\ pc'[i] = "commit"
          /\ (pc[i] = "stats" /\ pc'[i] = "exists") =>
                prediction'[i].playerId = CurrentPlayer(i)
          /\ writes'[i] # writes[i] /\ writes'[i] # <<>> =>
                /\ pc[i] = "write"
                /\ prediction[i] # NoPrediction
                /\ prediction[i].playerId = CurrentPlayer(i)
                /\ writes'[i] = Append(writes[i], [op |-> IF existing[i] THEN "update" ELSE "insert",
                                                   key |-> CurrentKey(i),
                                                   pred |-> prediction[i]])
                /\ \A n \in 1..Len(writes[i]) : writes[i][n].key # CurrentKey(i)]_vars

\* the three players were handled in the order of the roster
C26_Witness ==
    /\ Finished(1) /\ outcome[1] = "returned" /\ nfaults = 0 /\ arg[1] = 1
    /\ Len(results[1]) = 3
    /\ \A n \in 1..3 : results[1][n].playerId = n

-----------------------------------------------------------------------------
(* Orchestrator: the transaction and the pooled client *)

-----------------------------------------------------------------------------
(* The maintenance scripts *)

\* C28: when a script is done it has called pool.end() exactly once, on
\* every path; and when its matches query gave no row it has returned,
\* with nothing counted, and not thrown.
C28_PoolEndedOnce ==
    spc = "done" =>
        /\ pool.endCalls = 1
        /\ found = 0 => sout = "returned" /\ tally = NoTally

-----------------------------------------------------------------------------
(* Engine: imputed values lie within the played values *)

\* C29: in a window of 15 games with at least one played game each imputed
\* stat is at least the smallest and at most the largest of the played
\* games' values of that stat; so a candidate that every played game meets
\* is met by all 15 values after imputation, and the threshold returned is
\* that candidate or a higher one, however many games were not played.
C29_ImputedWithinPlayedRange ==
    (Returned /\ Len(games) = 15 /\ PlayedIdx # {}) =>
        \A s \in Stats :
            /\ \A i \in UnplayedIdx :
                  /\ \E j \in PlayedIdx : games[j][s] <= imputedGames[i][s]
                  /\ \E j \in PlayedIdx : games[j][s] >= imputedGames[i][s]
            /\ \A n \in 1..Len(THRESHOLDS[s]) :
                  (\A j \in PlayedIdx : games[j][s] >= THRESHOLDS[s][n]) =>
                      /\ \A i \in 1..15 : imputedGames[i][s] >= THRESHOLDS[s][n]
                      /\ out.value[ThresholdField(s)] # NULL
                      /\ out.value[ThresholdField(s)] >= THRESHOLDS[s][n]

\* one played game with 30 points, 14 games not played: 30 is returned
C29_Witness ==
    /\ Returned
    /\ Cardinality(PlayedIdx) = 1 /\ Cardinality(UnplayedIdx) = 14
    /\ \A j \in PlayedIdx : games[j].points = 30
    /\ out.value.pointsThreshold = 30

=============================================================================
